---- MODULE Spec2Model ----
(***************************************************************************)
(* The padded batch perplexity computation of the lecture notebook         *)
(* C3_W2_lecture_nb_02_perplexity.ipynb, one action per notebook cell.     *)
(*                                                                         *)
(* Arrays are sequences: predictions[b][t][v] with b \in 1..B, t \in 1..T  *)
(* and v \in 1..V; the vocabulary id k of the code is the index k + 1.     *)
(* Log-probabilities are integers (the float32 values of the code without  *)
(* their rounding); the quotient of the last cell is an exact fraction in  *)
(* lowest terms, or NaN for 0/0.                                           *)
(***************************************************************************)
EXTENDS Integers, Sequences, FiniteSets

VARIABLES predictions, targets, pc, reshaped_targets, total_log_ppx,
          non_pad, real_log_ppx, log_ppx, ppx, err

vars == <<predictions, targets, pc, reshaped_targets, total_log_ppx,
          non_pad, real_log_ppx, log_ppx, ppx, err>>

(* ------------------------------ bounds -------------------------------- *)

\* Largest number of entries B * T * V of predictions in a well-formed batch.
MaxSize == 6

\* Largest vocabulary dimension V.
MaxVocab == 3

\* Log-probabilities range over -MaxVal .. 0.
MaxVal == 1

\* Largest number of entries of predictions plus entries of targets when the
\* two arrays are drawn independently (any shapes, any ids).
MaxInput == 6

LogProbs == (-MaxVal)..0

(* ------------------------- numbers of the code ------------------------ *)

Abs(n) == IF n < 0 THEN -n ELSE n

RECURSIVE Gcd(_, _)
Gcd(a, b) == IF b = 0 THEN a ELSE Gcd(b, a % b)

\* A float scalar: a fraction num/den in lowest terms with den > 0, or NaN.
Frac(n, d) == [kind |-> "num", num |-> n, den |-> d]
NaN == [kind |-> "nan", num |-> 0, den |-> 0]
Inf(s) == [kind |-> "inf", num |-> s, den |-> 0]
Unset == [kind |-> "unset", num |-> 0, den |-> 0]

\* Divide with the quotient of an empty batch taken to be 0.
DivideZeroForEmpty(a, b) ==
    IF b = 0 THEN Frac(0, 1)
    ELSE LET g == Gcd(Abs(a), Abs(b))
             s == IF b < 0 THEN -1 ELSE 1
         IN Frac(s * (a \div g), s * (b \div g))

\* Divide as the floor division a // b.
DivideFloor(a, b) ==
    IF b = 0 THEN [kind |-> "nan", num |-> 0, den |-> 0]
    ELSE Frac(a \div b, 1)

\* a / b of two float scalars holding whole numbers: IEEE division raises
\* nothing, 0/0 is NaN and x/0 is a signed infinity.
Divide(a, b) ==
    IF b = 0
    THEN IF a = 0 THEN NaN ELSE Inf(IF a < 0 THEN -1 ELSE 1)
    ELSE LET g == Gcd(Abs(a), Abs(b))
             s == IF b < 0 THEN -1 ELSE 1
         IN Frac(s * (a \div g), s * (b \div g))

\* Negate with the sign flip left out.
NegateDropped(x) == x

\* -x
Negate(x) == IF x.kind = "nan" THEN NaN ELSE [x EXCEPT !.num = -x.num]

\* np.exp(x): e to the power x, kept symbolic; exp of NaN is NaN.
Exp(x) == IF x.kind = "nan" THEN NaN ELSE [x EXCEPT !.kind = "exp"]

\* x <= y for two finite fractions; exp is increasing, so the same
\* comparison orders two values of Exp.
Leq(x, y) == x.num * y.den <= y.num * x.den

(* ------------------------- array primitives --------------------------- *)

RECURSIVE SumSeq(_)
SumSeq(s) == IF s = <<>> THEN 0 ELSE Head(s) + SumSeq(Tail(s))

\* Shape of a 2-D and of a 3-D array.
Shape2(x) == <<Len(x), Len(x[1])>>
Shape3(x) == <<Len(x), Len(x[1]), Len(x[1][1])>>

\* BroadcastLen without broadcasting: the two lengths must be equal.
BroadcastLenStrict(m, n) == IF m = n THEN m ELSE 0

\* numpy broadcasting of two axis lengths: equal, or one of them 1;
\* 0 stands for "incompatible".
BroadcastLen(m, n) ==
    IF m = n THEN m ELSE IF m = 1 THEN n ELSE IF n = 1 THEN m ELSE 0

\* Index into an axis of length n for the broadcast index i.
At(n, i) == IF n = 1 THEN 1 ELSE i

Compatible3(x, y) ==
    \A k \in 1..3 : BroadcastLen(Shape3(x)[k], Shape3(y)[k]) # 0

Compatible2(x, y) ==
    \A k \in 1..2 : BroadcastLen(Shape2(x)[k], Shape2(y)[k]) # 0

\* x * y, elementwise with broadcasting, for 3-D arrays.
Multiply3(x, y) ==
    LET sx == Shape3(x)
        sy == Shape3(y)
    IN [b \in 1..BroadcastLen(sx[1], sy[1]) |->
         [t \in 1..BroadcastLen(sx[2], sy[2]) |->
           [v \in 1..BroadcastLen(sx[3], sy[3]) |->
               x[At(sx[1], b)][At(sx[2], t)][At(sx[3], v)]
             * y[At(sy[1], b)][At(sy[2], t)][At(sy[3], v)]]]]

\* x * y, elementwise with broadcasting, for 2-D arrays.
Multiply2(x, y) ==
    LET sx == Shape2(x)
        sy == Shape2(y)
    IN [b \in 1..BroadcastLen(sx[1], sy[1]) |->
         [t \in 1..BroadcastLen(sx[2], sy[2]) |->
               x[At(sx[1], b)][At(sx[2], t)]
             * y[At(sy[1], b)][At(sy[2], t)]]]

\* np.sum(x, axis=-1) of a 3-D array.
SumLast(x) == [b \in 1..Len(x) |-> [t \in 1..Len(x[b]) |-> SumSeq(x[b][t])]]

\* SumAll reduced over the first row only, np.sum(x[0]).
SumAllFirstRow(x) == SumSeq(x[1])

\* np.sum(x) of a 2-D array.
SumAll(x) == SumSeq([b \in 1..Len(x) |-> SumSeq(x[b])])

\* np.equal(x, c) of a 2-D array, as 0/1.
Equal(x, c) ==
    [b \in 1..Len(x) |-> [t \in 1..Len(x[b]) |-> IF x[b][t] = c THEN 1 ELSE 0]]

(* --------------------------- the notebook cells ----------------------- *)

\* OneHot with the categories counted from 1, arange(1, n + 1).
OneHotShifted(x, n) ==
    [b \in 1..Len(x) |-> [t \in 1..Len(x[b]) |->
        [v \in 1..n |-> IF x[b][t] = v THEN 1 ELSE 0]]]

\* OneHot with the id clipped into 0..n-1, as an indexed gather clips it.
OneHotClipped(x, n) ==
    [b \in 1..Len(x) |-> [t \in 1..Len(x[b]) |->
        [v \in 1..n |->
            IF (IF x[b][t] < 0 THEN 0
                ELSE IF x[b][t] > n - 1 THEN n - 1 ELSE x[b][t]) = v - 1
            THEN 1 ELSE 0]]]

\* tl.one_hot(x, n): x[..., newaxis] == arange(n); an id outside 0..n-1
\* matches no category and gives an all-zero row.

OneHot(x, n) ==
    [b \in 1..Len(x) |-> [t \in 1..Len(x[b]) |->
        [v \in 1..n |-> IF x[b][t] = v - 1 THEN 1 ELSE 0]]]

\* TotalLogPpx without the one-hot product, np.sum(predictions, axis=-1).
TotalLogPpxOfAllClasses(p, r) == SumLast(p)

\* np.sum(predictions * reshaped_targets, axis=-1)
TotalLogPpx(p, r) == SumLast(Multiply3(p, r))

\* NonPad with the padding left in: every position counts.
NonPadAllOnes(x) ==
    [b \in 1..Len(x) |-> [t \in 1..Len(x[b]) |-> 1]]

\* NonPad with id 1 taken for the padding, 1.0 - np.equal(targets, 1).
NonPadOfOne(x) ==
    [b \in 1..Len(x) |-> [t \in 1..Len(x[b]) |-> IF x[b][t] = 1 THEN 0 ELSE 1]]

\* 1.0 - np.equal(targets, 0)

NonPad(x) ==
    LET e == Equal(x, 0)
    IN [b \in 1..Len(x) |-> [t \in 1..Len(x[b]) |-> 1 - e[b][t]]]

\* total_log_ppx * non_pad
RealLogPpx(tot, np) == Multiply2(tot, np)

\* LogPpx as the mean over every position, -np.mean(real_log_ppx).
LogPpxMeanOverAll(real, np) ==
    Negate(Divide(SumAll(real), Len(real) * Len(real[1])))

\* log_ppx = np.sum(real_log_ppx) / np.sum(non_pad); log_ppx = -log_ppx
LogPpx(real, np) == Negate(Divide(SumAll(real), SumAll(np)))

\* The cells in sequence on the arrays p and tg that broadcast: the two sums
\* of the last cell, log_ppx and np.exp(log_ppx).
Run(p, tg) ==
    LET r == OneHot(tg, Shape3(p)[3])
        tot == TotalLogPpx(p, r)
        np == NonPad(tg)
        real == RealLogPpx(tot, np)
    IN [total |-> SumAll(real), count |-> SumAll(np),
        log_ppx |-> LogPpx(real, np), ppx |-> Exp(LogPpx(real, np))]

(* ------------------------------ inputs -------------------------------- *)

Arrays3(B, T, V, S) == [1..B -> [1..T -> [1..V -> S]]]
Arrays2(B, T, S) == [1..B -> [1..T -> S]]

\* Well-formed batches: targets has the shape of the first two axes of
\* predictions and holds ids of the vocabulary, 0 being the padding.
Shapes ==
    {s \in (1..MaxSize) \X (1..MaxSize) \X (2..MaxVocab) :
        s[1] * s[2] * s[3] <= MaxSize}

\* Any two arrays: the shape of targets is independent of the shape of
\* predictions, and an id may be -1 or V, just outside the vocabulary.
AnyShapes ==
    {s \in (1..MaxInput) \X (1..MaxInput) \X (1..MaxVocab)
              \X (1..MaxInput) \X (1..MaxInput) :
        s[1] * s[2] * s[3] + s[4] * s[5] <= MaxInput}

TypeOK ==
    /\ pc \in {"one_hot", "total", "non_pad", "real", "log_ppx", "done", "failed"}
    /\ err \in {"none", "ShapeMismatch"}

Loaded ==
    /\ pc = "one_hot"
    /\ reshaped_targets = <<>>
    /\ total_log_ppx = <<>>
    /\ non_pad = <<>>
    /\ real_log_ppx = <<>>
    /\ log_ppx = Unset
    /\ ppx = Unset
    /\ err = "none"

Init ==
    /\ \E s \in Shapes :
          /\ predictions \in Arrays3(s[1], s[2], s[3], LogProbs)
          /\ targets \in Arrays2(s[1], s[2], 0..(s[3] - 1))
    /\ Loaded

InitAny ==
    /\ \E s \in AnyShapes :
          /\ predictions \in Arrays3(s[1], s[2], s[3], LogProbs)
          /\ targets \in Arrays2(s[4], s[5], (-1)..s[3])
    /\ Loaded

(* ------------------------------ actions ------------------------------- *)

\* reshaped_targets = tl.one_hot(targets, predictions.shape[-1])
OneHotCell ==
    /\ pc = "one_hot"
    /\ reshaped_targets' = OneHot(targets, Shape3(predictions)[3])
    /\ pc' = "total"
    /\ UNCHANGED <<predictions, targets, total_log_ppx, non_pad,
                   real_log_ppx, log_ppx, ppx, err>>

\* total_log_ppx = np.sum(predictions * reshaped_targets, axis=-1); the
\* product raises when the two shapes do not broadcast.
TotalCell ==
    /\ pc = "total"
    /\ IF Compatible3(predictions, reshaped_targets)
       THEN /\ total_log_ppx' = TotalLogPpx(predictions, reshaped_targets)
            /\ pc' = "non_pad"
            /\ err' = err
       ELSE /\ total_log_ppx' = total_log_ppx
            /\ pc' = "failed"
            /\ err' = "ShapeMismatch"
    /\ UNCHANGED <<predictions, targets, reshaped_targets, non_pad,
                   real_log_ppx, log_ppx, ppx>>

\* NonPadCell with the mask also stored under the name targets.
NonPadCellInPlace ==
    /\ pc = "non_pad"
    /\ non_pad' = NonPad(targets)
    /\ targets' = NonPad(targets)
    /\ pc' = "real"
    /\ UNCHANGED <<predictions, reshaped_targets, total_log_ppx,
                   real_log_ppx, log_ppx, ppx, err>>

\* non_pad = 1.0 - np.equal(targets, 0)
NonPadCell ==
    /\ pc = "non_pad"
    /\ non_pad' = NonPad(targets)
    /\ pc' = "real"
    /\ UNCHANGED <<predictions, targets, reshaped_targets, total_log_ppx,
                   real_log_ppx, log_ppx, ppx, err>>

\* real_log_ppx = total_log_ppx * non_pad
RealCell ==
    /\ pc = "real"
    /\ IF Compatible2(total_log_ppx, non_pad)
       THEN /\ real_log_ppx' = RealLogPpx(total_log_ppx, non_pad)
            /\ pc' = "log_ppx"
            /\ err' = err
       ELSE /\ real_log_ppx' = real_log_ppx
            /\ pc' = "failed"
            /\ err' = "ShapeMismatch"
    /\ UNCHANGED <<predictions, targets, reshaped_targets, total_log_ppx,
                   non_pad, log_ppx, ppx>>

\* log_ppx = -(np.sum(real_log_ppx) / np.sum(non_pad)); np.exp(log_ppx)
LogPpxCell ==
    /\ pc = "log_ppx"
    /\ log_ppx' = LogPpx(real_log_ppx, non_pad)
    /\ ppx' = Exp(LogPpx(real_log_ppx, non_pad))
    /\ pc' = "done"
    /\ UNCHANGED <<predictions, targets, reshaped_targets, total_log_ppx,
                   non_pad, real_log_ppx, err>>

Next == OneHotCell \/ TotalCell \/ NonPadCell \/ RealCell \/ LogPpxCell

\* np.sum(real_log_ppx) and np.sum(non_pad) of the last cell.
Total == SumAll(real_log_ppx)
Count == SumAll(non_pad)

Spec == Init /\ [][Next]_vars

SpecAny == InitAny /\ [][Next]_vars

(* -------------------- the two worked examples ------------------------- *)

\* Values stored where an example does not fix them.
Fill == LogProbs \cup {-5}

\* predictions of shape (1,3,4) for targets [a, c, PAD]: -1 and -2 at the
\* true classes of the two real positions, y in the row of the PAD position
\* and x elsewhere.
PaddedExample(a, c, x, y) ==
    <<[t \in 1..3 |-> [v \in 1..4 |->
        IF t = 1 /\ v = a + 1 THEN -1
        ELSE IF t = 2 /\ v = c + 1 THEN -2
        ELSE IF t = 3 THEN y ELSE x]]>>

\* predictions of shape (1,4,4) for the unpadded targets ids: -1 at every
\* true class and x elsewhere.
FullExample(ids, x) ==
    <<[t \in 1..4 |-> [v \in 1..4 |-> IF v = ids[t] + 1 THEN -1 ELSE x]]>>

InitExamples ==
    /\ \/ \E a \in 1..3, c \in 1..3, x \in Fill, y \in Fill :
             /\ targets = <<(<<a, c, 0>>)>>
             /\ predictions = PaddedExample(a, c, x, y)
       \/ \E ids \in [1..4 -> 1..3], x \in Fill :
             /\ targets = <<ids>>
             /\ predictions = FullExample(ids, x)
    /\ Loaded

SpecExamples == InitExamples /\ [][Next]_vars

(* ------------------------------ properties ---------------------------- *)

Positions(tg) == {pos \in (1..Len(tg)) \X (1..Len(tg[1])) : TRUE}

IdAt(tg, pos) == tg[pos[1]][pos[2]]

\* The positions that hold a real token: an id other than 0.
RealPositions(tg) == {pos \in Positions(tg) : IdAt(tg, pos) # 0}

\* predictions[b, t, targets[b, t]], the direct gather.
TrueClass(p, tg, pos) == p[pos[1]][pos[2]][IdAt(tg, pos) + 1]

RECURSIVE GatherSum(_, _, _)
GatherSum(S, p, tg) ==
    IF S = {} THEN 0
    ELSE LET pos == CHOOSE x \in S : TRUE
         IN TrueClass(p, tg, pos) + GatherSum(S \ {pos}, p, tg)

Vocab == Shape3(predictions)[3]

SameShape == Shape2(targets) = <<Shape3(predictions)[1], Shape3(predictions)[2]>>

InRange == \A pos \in Positions(targets) : IdAt(targets, pos) \in 0..(Vocab - 1)

WellFormed == SameShape /\ InRange

AllPad == RealPositions(targets) = {}

Ended == pc \in {"done", "failed"}

\* C1: on a well-formed batch with a real position, total is the sum of the
\* true-class log-probabilities over exactly the real positions, count is
\* the number of real positions, log_perplexity is -(total / count), and
\* replacing the vocabulary row of a padded position changes none of them.
C1_MaskedMean ==
    (pc = "done" /\ ~AllPad) =>
        /\ Total = GatherSum(RealPositions(targets), predictions, targets)
        /\ Count = Cardinality(RealPositions(targets))
        /\ log_ppx.kind = "num"
        /\ log_ppx.den > 0
        /\ log_ppx.num * Count = (-Total) * log_ppx.den
        /\ \A pos \in Positions(targets) \ RealPositions(targets) :
             \A row \in [1..Vocab -> LogProbs] :
                LET r == Run([predictions EXCEPT ![pos[1]][pos[2]] = row], targets)
                IN r.total = Total /\ r.count = Count /\ r.log_ppx = log_ppx

C1_Witness ==
    /\ pc = "done"
    /\ Cardinality(RealPositions(targets)) = 2
    /\ \E pos \in Positions(targets) :
          IdAt(targets, pos) = 0 /\ TrueClass(predictions, targets, pos) = -1
    /\ Total = -1

\* C2 as stated: a well-shaped batch whose targets are all PAD ends in the
\* error DivisionByZero with no perplexity.
C2_DivisionByZero ==
    (AllPad /\ SameShape /\ Ended) =>
        (pc = "failed" /\ err = "DivisionByZero" /\ ppx = Unset)

\* C2 amended: on a batch whose targets are all PAD nothing is raised; the
\* quotient is 0/0, so log_perplexity and perplexity are both NaN.
C2_AllPadIsNaN ==
    AllPad =>
        /\ pc = "done" => (err = "none" /\ log_ppx = NaN /\ ppx = NaN)
        /\ pc = "failed" => ~SameShape

C2_Witness ==
    /\ pc = "done"
    /\ AllPad
    /\ SameShape
    /\ Cardinality(Positions(targets)) >= 2
    /\ \E pos \in Positions(targets) : TrueClass(predictions, targets, pos) = -1

OutOfRange == {pos \in Positions(targets) : IdAt(targets, pos) \notin 0..(Vocab - 1)}

\* C3 as stated: a well-shaped batch with a target id outside [0, V) ends
\* in the error IndexOutOfRange.
C3_IndexOutOfRange ==
    (SameShape /\ OutOfRange # {} /\ Ended) =>
        (pc = "failed" /\ err = "IndexOutOfRange")

\* C3 amended: a target id outside [0, V) raises nothing; its one-hot row
\* is all zero, so the value selected at the position is 0, and the id not
\* being 0 the position is counted as a real token and a result is returned.
C3_OutOfRangeIsZeroRow ==
    (SameShape /\ OutOfRange # {}) =>
        /\ pc # "failed"
        /\ err = "none"
        /\ \A pos \in OutOfRange :
            /\ pc \in {"non_pad", "real", "log_ppx", "done"}
                  => total_log_ppx[pos[1]][pos[2]] = 0
            /\ pc \in {"real", "log_ppx", "done"} => non_pad[pos[1]][pos[2]] = 1
            /\ pc \in {"log_ppx", "done"} => real_log_ppx[pos[1]][pos[2]] = 0
        /\ pc = "done" =>
            /\ Count = Cardinality(RealPositions(targets))
            /\ Total = GatherSum(RealPositions(targets) \ OutOfRange,
                                 predictions, targets)
            /\ log_ppx.kind = "num"

C3_Witness ==
    /\ pc = "done"
    /\ SameShape
    /\ \E pos \in OutOfRange :
          \A v \in 1..Vocab : predictions[pos[1]][pos[2]][v] = -1
    /\ \E pos \in RealPositions(targets) \ OutOfRange :
          TrueClass(predictions, targets, pos) = -1
    /\ log_ppx = Frac(1, 2)

\* The two shapes broadcast: on each axis the lengths agree or one is 1.
Broadcasts ==
    \A k \in 1..2 :
        \/ Shape3(predictions)[k] = Shape2(targets)[k]
        \/ Shape3(predictions)[k] = 1
        \/ Shape2(targets)[k] = 1

\* C4 as stated: whenever predictions.shape[:2] differs from targets.shape
\* (the ids being in range) the computation ends in the error ShapeMismatch
\* with no result.
C4_ShapeMismatch ==
    (~SameShape /\ InRange /\ Ended) =>
        (pc = "failed" /\ err = "ShapeMismatch" /\ ppx = Unset)

\* C4 amended: with differing shapes the computation fails, before any
\* result, exactly when on some axis the two lengths differ and neither
\* is 1; otherwise the arrays broadcast and a result is returned.
C4_FailsUnlessBroadcast ==
    ~SameShape =>
        /\ pc = "failed" =>
              (~Broadcasts /\ err = "ShapeMismatch" /\ log_ppx = Unset /\ ppx = Unset)
        /\ pc \in {"non_pad", "real", "log_ppx", "done"} =>
              (Broadcasts /\ err = "none")
        /\ pc = "done" => (log_ppx # Unset /\ ppx # Unset)

C4_Witness ==
    /\ pc = "done"
    /\ ~SameShape
    /\ Shape2(targets) = <<1, 2>>
    /\ Shape3(predictions)[1] = 2
    /\ log_ppx = Frac(1, 1)

\* C5 as stated: for every pad id the mask is 1 exactly at the positions
\* whose target differs from that pad id.
C5_MaskFromPadId ==
    pc \in {"real", "log_ppx", "done"} =>
        \A pad \in 0..(Vocab - 1) :
            \A pos \in Positions(targets) :
                non_pad[pos[1]][pos[2]] = (IF IdAt(targets, pos) # pad THEN 1 ELSE 0)

\* C5 amended: there is no pad_id argument; the mask is built from the
\* constant 0, so it is 1 exactly where the target is not 0: positions
\* holding any other id are included in total and count, and positions
\* holding 0 are excluded from them.
C5_MaskFromZero ==
    /\ pc \in {"real", "log_ppx", "done"} =>
          \A pos \in Positions(targets) :
             /\ IdAt(targets, pos) = 0 => non_pad[pos[1]][pos[2]] = 0
             /\ IdAt(targets, pos) # 0 => non_pad[pos[1]][pos[2]] = 1
    /\ pc \in {"log_ppx", "done"} =>
          \A pos \in Positions(targets) :
             real_log_ppx[pos[1]][pos[2]] =
                (IF IdAt(targets, pos) = 0 THEN 0
                 ELSE TrueClass(predictions, targets, pos))

C5_Witness ==
    /\ pc = "done"
    /\ \E pos \in Positions(targets) :
          IdAt(targets, pos) = 0 /\ TrueClass(predictions, targets, pos) = -1
    /\ \E pos \in Positions(targets) :
          IdAt(targets, pos) = 1 /\ TrueClass(predictions, targets, pos) = -1
    /\ Count = 1

\* predictions[b, t, targets[b, t]] at every position.
Gathered ==
    [b \in 1..Len(targets) |-> [t \in 1..Len(targets[b]) |->
        predictions[b][t][targets[b][t] + 1]]]

\* C6: on a well-formed batch the one-hot product summed over the
\* vocabulary axis is, at every position, the direct gather
\* predictions[b, t, targets[b, t]], and so are total and log_perplexity.
C6_OneHotIsGather ==
    /\ pc \in {"non_pad", "real", "log_ppx", "done"} => total_log_ppx = Gathered
    /\ pc = "done" =>
          /\ Total = SumAll(Multiply2(Gathered, non_pad))
          /\ log_ppx = LogPpx(Multiply2(Gathered, non_pad), non_pad)

C6_Witness ==
    /\ pc = "done"
    /\ \E pos \in Positions(targets) :
          /\ IdAt(targets, pos) = 1
          /\ predictions[pos[1]][pos[2]][1] = 0
          /\ predictions[pos[1]][pos[2]][2] = -1
    /\ Total = -1

Permutations(n) == {f \in [1..n -> 1..n] : \A i, j \in 1..n : f[i] = f[j] => i = j}

Permuted(x, f) == [b \in 1..Len(x) |-> x[f[b]]]

\* C7: permuting the rows of predictions and of targets by the same
\* permutation leaves total, count, log_perplexity and perplexity
\* unchanged (the NaN outcome of an all-PAD batch included).
C7_BatchOrder ==
    pc = "done" =>
        \A f \in Permutations(Len(targets)) :
            Run(Permuted(predictions, f), Permuted(targets, f))
                = [total |-> Total, count |-> Count, log_ppx |-> log_ppx, ppx |-> ppx]

C7_Witness ==
    /\ pc = "done"
    /\ Len(targets) = 3
    /\ targets[1][1] = 1 /\ targets[2][1] = 0 /\ targets[3][1] = 1
    /\ real_log_ppx[1][1] = -1 /\ real_log_ppx[3][1] = 0
    /\ predictions[2][1][1] = -1

\* C8: for two batches with the same targets and a non-zero count, if each
\* true-class log-probability at a real position of the first is >= that
\* of the second, the first's log_perplexity and perplexity are <= the
\* second's. The state's batch is the second, q the first.
C8_Monotone ==
    (pc = "done" /\ WellFormed /\ ~AllPad) =>
        \A q \in Arrays3(Shape3(predictions)[1], Shape3(predictions)[2],
                         Vocab, LogProbs) :
            (\A pos \in RealPositions(targets) :
                TrueClass(q, targets, pos) >= TrueClass(predictions, targets, pos))
            => LET r == Run(q, targets)
               IN /\ r.log_ppx.kind = "num" /\ log_ppx.kind = "num"
                  /\ Leq(r.log_ppx, log_ppx)
                  /\ r.ppx.kind = "exp" /\ ppx.kind = "exp"
                  /\ Leq(r.ppx, ppx)

C8_Witness ==
    /\ pc = "done"
    /\ WellFormed
    /\ Cardinality(RealPositions(targets)) = 2
    /\ log_ppx = Frac(1, 2)
    /\ ppx = Exp(Frac(1, 2))

\* C9: a batch with exactly one real position, of true-class
\* log-probability p, gives count = 1 and log_perplexity = -p, whatever its
\* shape, the place of the token and the values at the padded positions.
C9_SingleToken ==
    (pc = "done" /\ Cardinality(RealPositions(targets)) = 1) =>
        LET pos == CHOOSE x \in RealPositions(targets) : TRUE
        IN /\ err = "none"
           /\ Count = 1
           /\ log_ppx = Frac(-TrueClass(predictions, targets, pos), 1)

C9_Witness ==
    /\ pc = "done"
    /\ Shape2(targets) = <<1, 3>>
    /\ RealPositions(targets) = {<<1, 2>>}
    /\ TrueClass(predictions, targets, <<1, 2>>) = -1
    /\ TrueClass(predictions, targets, <<1, 1>>) = -1
    /\ log_ppx = Frac(1, 1)

IsPaddedExample ==
    /\ Shape3(predictions) = <<1, 3, 4>>
    /\ Shape2(targets) = <<1, 3>>
    /\ targets[1][1] # 0 /\ targets[1][2] # 0 /\ targets[1][3] = 0
    /\ TrueClass(predictions, targets, <<1, 1>>) = -1
    /\ TrueClass(predictions, targets, <<1, 2>>) = -2

IsFullExample ==
    /\ Shape3(predictions) = <<1, 4, 4>>
    /\ Shape2(targets) = <<1, 4>>
    /\ \A t \in 1..4 :
          targets[1][t] # 0 /\ TrueClass(predictions, targets, <<1, t>>) = -1

\* C10: predictions of shape (1,3,4) with targets [a, c, PAD] and
\* true-class log-probabilities -1 and -2 give count = 2, total = -3 and
\* log_perplexity = 3/2 whatever is stored at the PAD position; one unpadded
\* sequence of length 4 with true-class log-probabilities all -1 gives
\* count = 4, total = -4 and log_perplexity = 1.
C10_Examples ==
    pc = "done" =>
        /\ IsPaddedExample =>
              (Count = 2 /\ Total = -3 /\ log_ppx = Frac(3, 2) /\ ppx = Exp(Frac(3, 2)))
        /\ IsFullExample =>
              (Count = 4 /\ Total = -4 /\ log_ppx = Frac(1, 1) /\ ppx = Exp(Frac(1, 1)))

C10_Witness ==
    /\ pc = "done"
    /\ IsPaddedExample
    /\ TrueClass(predictions, targets, <<1, 3>>) = -5
    /\ log_ppx = Frac(3, 2)

\* What a run on the arrays p and tg ends with: the error of the first
\* product when the shapes do not broadcast, the last cell's values otherwise.
Outcome(p, tg) ==
    IF \A k \in 1..2 : \/ Shape3(p)[k] = Shape2(tg)[k]
                       \/ Shape3(p)[k] = 1
                       \/ Shape2(tg)[k] = 1
    THEN [err |-> "none", log_ppx |-> Run(p, tg).log_ppx, ppx |-> Run(p, tg).ppx]
    ELSE [err |-> "ShapeMismatch", log_ppx |-> Unset, ppx |-> Unset]

\* C11 as stated: every run that has ended holds either a complete result,
\* log_perplexity and perplexity both defined numbers, or one of the errors
\* ShapeMismatch, IndexOutOfRange, DivisionByZero and no result.
C11_ResultOrError ==
    Ended =>
        \/ /\ pc = "done" /\ err = "none"
           /\ log_ppx.kind = "num" /\ ppx.kind = "exp"
        \/ /\ pc = "failed"
           /\ err \in {"ShapeMismatch", "IndexOutOfRange", "DivisionByZero"}
           /\ log_ppx = Unset /\ ppx = Unset

\* A cell is due: the guard of each cell is its value of pc alone.
CellDue == pc \in {"one_hot", "total", "non_pad", "real", "log_ppx"}

C11_Outcome ==
    /\ ~Ended => CellDue
    /\ pc = "done" =>
          /\ err = "none"
          /\ \/ ~AllPad /\ log_ppx.kind = "num" /\ ppx.kind = "exp"
             \/ AllPad /\ log_ppx = NaN /\ ppx = NaN
    /\ pc = "failed" =>
          (err = "ShapeMismatch" /\ log_ppx = Unset /\ ppx = Unset)
    /\ (log_ppx = Unset) = (ppx = Unset)
    /\ Ended =>
          [err |-> err, log_ppx |-> log_ppx, ppx |-> ppx] = Outcome(predictions, targets)

\* C11 amended: there is no partial-failure mode. Every run goes on until it
\* has ended, either with both log_perplexity and perplexity set (to
\* numbers, or both to NaN when no target differs from 0) or with the shape
\* error of two shapes that do not broadcast and neither value set; the
\* errors IndexOutOfRange and DivisionByZero never occur; no cell changes
\* predictions or targets; and the outcome is a function of the two arrays.
C11_PureNoPartialFailure ==
    /\ []C11_Outcome
    /\ [][predictions' = predictions /\ targets' = targets]_vars

C11_Witness ==
    /\ pc = "failed"
    /\ err = "ShapeMismatch"
    /\ Shape3(predictions)[1] = 2
    /\ Shape2(targets)[1] = 3
    /\ reshaped_targets # <<>>
    /\ ppx = Unset

\* C12: the result depends on predictions only through the true-class
\* entries of the real positions: on a well-formed batch, any predictions
\* array q of the same shape that agrees with predictions at
\* [b, t, targets[b, t]] for every real (b, t) gives the same total, count,
\* log_perplexity and perplexity.
C12_OnlyTrueClassEntries ==
    (pc = "done" /\ WellFormed) =>
        \A q \in Arrays3(Shape3(predictions)[1], Shape3(predictions)[2],
                         Vocab, LogProbs) :
            (\A pos \in RealPositions(targets) :
                TrueClass(q, targets, pos) = TrueClass(predictions, targets, pos))
            => Run(q, targets)
                 = [total |-> Total, count |-> Count, log_ppx |-> log_ppx, ppx |-> ppx]

C12_Witness ==
    /\ pc = "done"
    /\ WellFormed
    /\ Shape3(predictions) = <<1, 2, 2>>
    /\ targets = <<(<<1, 0>>)>>
    /\ predictions = <<(<<(<<-1, 0>>), (<<-1, -1>>)>>)>>
    /\ log_ppx = Frac(0, 1)

====
